---- MODULE Spec2Model ----
(***************************************************************************)
(* Latest-flag demo (src/app.py): a Streamlit script.  Every interaction   *)
(* re-executes main() from the top: sample.csv is read again by            *)
(* load_data(), while st.session_state (step, df_flagged, df_clean)        *)
(* survives from one execution to the next.                                *)
(*                                                                         *)
(* One action is one execution of main(): a plain rerun, or the rerun      *)
(* triggered by one of the two buttons.  The dataframe operations are      *)
(* operators, computed the way pandas computes them.                       *)
(***************************************************************************)
EXTENDS Integers, Sequences, FiniteSets, TLC

VARIABLES
    csv,          \* content of sample.csv as read by the latest execution
    step,         \* st.session_state.step
    df_flagged,   \* st.session_state.df_flagged
    df_clean,     \* st.session_state.df_clean
    click,        \* the button whose click triggered the latest execution
    error,        \* how the latest execution ended
    rendered,     \* the buttons the latest execution put on the page
    status_text,  \* the progress indicator's text
    metrics       \* the "Summary Statistics" block of the page

vars == <<csv, step, df_flagged, df_clean, click, error, rendered, status_text, metrics>>

session == <<step, df_flagged, df_clean>>

-----------------------------------------------------------------------------
(* Bounds. *)

\* Longest sample.csv (in rows) when the file stays the same between runs.
MaxRows == 3

\* Longest sample.csv (in rows) when the file is rewritten between runs.
MaxFileRows == 2

-----------------------------------------------------------------------------
(* Values. *)

\* A missing cell of an object column, as read_csv yields it for an empty cell.
NaN == "NaN"

\* The missing timestamp.  pandas stores NaT as the least int64, below every
\* real timestamp; real timestamps here are month * 100 + day of one year.
NaT == 0

\* The float NaN that transform leaves in latest_flag for a row in no group.
FlagNaN == -1

HostnameCol == "Hostname"
FqdnCol == "FQDN"
LastActiveCol == "Last_Active (UTC)"

AllCols == {HostnameCol, FqdnCol, LastActiveCol}

\* Raw cells of sample.csv.  A key is <<Hostname, FQDN>>, each text, "" when
\* the cell is empty.  A Last_Active cell is <<day, month>> as written
\* day-first in the file; <<31, 2>> is a cell that is no date.
Keys == {<<"X", "A">>, <<"Y", "A">>, <<"X", "">>, <<"", "A">>}
Cells == {<<31, 2>>, <<18, 7>>, <<24, 10>>}
DemoKeys == {<<"X", "A">>}
DemoCells == {<<31, 2>>, <<18, 7>>}

RawRows(ks, cs) ==
    {[Hostname |-> k[1], FQDN |-> k[2], Last_Active |-> c] : k \in ks, c \in cs}

RECURSIVE SeqsUpTo(_, _)
SeqsUpTo(S, n) ==
    IF n = 0 THEN {<<>>}
    ELSE LET shorter == SeqsUpTo(S, n - 1)
         IN  shorter \cup {Append(s, r) : s \in {t \in shorter : Len(t) = n - 1}, r \in S}

\* A file whose header lacks a column carries nothing in that column.
Project(cols, rows) ==
    [i \in 1..Len(rows) |->
        [Hostname    |-> IF HostnameCol \in cols THEN rows[i].Hostname ELSE "",
         FQDN        |-> IF FqdnCol \in cols THEN rows[i].FQDN ELSE "",
         Last_Active |-> IF LastActiveCol \in cols THEN rows[i].Last_Active ELSE <<>>]]

\* sample.csv files with every column: two hosts, missing key cells.
StaticFiles ==
    {[cols |-> AllCols, rows |-> d] : d \in SeqsUpTo(RawRows(Keys, Cells), MaxRows)}

\* sample.csv files of one host, with at most one column absent from the header.
Schemas == {AllCols} \cup {AllCols \ {c} : c \in AllCols}
DemoFiles ==
    {[cols |-> s, rows |-> Project(s, d)] :
        s \in Schemas, d \in SeqsUpTo(RawRows(DemoKeys, DemoCells), MaxFileRows)}

\* A dataframe slot of the session state: None, or a stored frame.
None == [stored |-> FALSE, rows |-> <<>>]
Frame(rows) == [stored |-> TRUE, rows |-> rows]

-----------------------------------------------------------------------------
(* load_data *)

DaysIn(m) == IF m = 2 THEN 28 ELSE IF m \in {4, 6, 9, 11} THEN 30 ELSE 31

\* pd.to_datetime(..., dayfirst=True, errors='coerce') on one cell.
to_datetime(c) ==
    IF Len(c) = 2 /\ c[2] \in 1..12 /\ c[1] \in 1..DaysIn(c[2])
    THEN c[2] * 100 + c[1]
    ELSE NaT

\* read_csv turns an empty cell into NaN.
read_cell(s) == IF s = "" THEN NaN ELSE s

\* load_data(): None when a column it indexes is absent (the KeyError is
\* caught by its except clause), else the frame with Last_Active coerced.
load_data(f) ==
    IF ~({HostnameCol, LastActiveCol} \subseteq f.cols)
    THEN [loaded |-> FALSE, cols |-> {}, rows |-> <<>>]
    ELSE [loaded |-> TRUE,
          cols   |-> f.cols,
          rows   |-> [i \in 1..Len(f.rows) |->
                        [Hostname    |-> read_cell(f.rows[i].Hostname),
                         FQDN        |-> read_cell(f.rows[i].FQDN),
                         Last_Active |-> to_datetime(f.rows[i].Last_Active)]]]

-----------------------------------------------------------------------------
(* apply_latest_flag_logic *)

isna(v) == v = NaN

\* groupby(['Hostname', 'FQDN']) with the default dropna=True: a row with a
\* missing key cell is in no group.
InGroup(r) == ~isna(r.Hostname) /\ ~isna(r.FQDN)

SameKey(r, s) == r.Hostname = s.Hostname /\ r.FQDN = s.FQDN

\* The positions of the group of row i, in row order.
RECURSIVE GroupOfFrom(_, _, _)
GroupOfFrom(rows, i, j) ==
    IF j > Len(rows) THEN <<>>
    ELSE IF InGroup(rows[j]) /\ SameKey(rows[j], rows[i])
         THEN <<j>> \o GroupOfFrom(rows, i, j + 1)
         ELSE GroupOfFrom(rows, i, j + 1)

GroupOf(rows, i) == GroupOfFrom(rows, i, 1)

\* x.max() of a datetime Series: NaT is skipped; NaT when nothing is left.
RECURSIVE SeriesMax(_)
SeriesMax(x) ==
    IF x = <<>> THEN NaT
    ELSE LET rest == SeriesMax(Tail(x))
         IN  IF Head(x) = NaT THEN rest
             ELSE IF rest = NaT \/ Head(x) > rest THEN Head(x) ELSE rest

\* Elementwise == of datetimes: NaT equals nothing, itself included.
SeriesEq(a, b) == a # NaT /\ b # NaT /\ a = b

\* A plausible slip: only the first row at the maximum keeps the flag.
FirstOnly(x, m) ==
    [i \in 1..Len(x) |->
        IF SeriesEq(x[i], m) /\ \A j \in 1..(i - 1) : ~SeriesEq(x[j], m) THEN 1 ELSE 0]

FirstMaxOnly(x) == FirstOnly(x, SeriesMax(x))

\* (x == m).astype(int)
EqAsInt(x, m) == [i \in 1..Len(x) |-> IF SeriesEq(x[i], m) THEN 1 ELSE 0]

\* lambda x: (x == x.max()).astype(int)
FlagLambda(x) == EqAsInt(x, SeriesMax(x))

PositionIn(g, i) == CHOOSE p \in 1..Len(g) : g[p] = i

\* groupby(...)[col].transform(lambda): the lambda's result for each group,
\* put back at the rows' positions; NaN for a row in no group.
SeriesOf(rows, g) == [p \in 1..Len(g) |-> rows[g[p]].Last_Active]

TransformAt(rows, g, i) == FlagLambda(SeriesOf(rows, g))[PositionIn(g, i)]

Transform(rows) ==
    [i \in 1..Len(rows) |->
        IF ~InGroup(rows[i]) THEN FlagNaN ELSE TransformAt(rows, GroupOf(rows, i), i)]

\* groupby raises KeyError when a column it names is absent.
apply_raises(df) == ~(AllCols \subseteq df.cols)

\* apply_latest_flag_logic(df), for a df it does not raise on: a copy of
\* the rows with the latest_flag column added.
WithFlags(rows, flags) ==
    [i \in 1..Len(rows) |->
        [Hostname    |-> rows[i].Hostname,
         FQDN        |-> rows[i].FQDN,
         Last_Active |-> rows[i].Last_Active,
         latest_flag |-> flags[i]]]

apply_latest_flag_logic(rows) == WithFlags(rows, Transform(rows))

-----------------------------------------------------------------------------
(* main *)

\* A plausible slip: keep every row that is not flagged 0.
KeepNotZero(r) == r.latest_flag # 0

\* df_flagged['latest_flag'] == 1
IsLatest(r) == r.latest_flag = 1

\* df_flagged[df_flagged['latest_flag'] == 1].reset_index(drop=True)
clean_rows(flagged) == SelectSeq(flagged, IsLatest)

\* The session state as the handlers see it.
Session == [step |-> step, df_flagged |-> df_flagged, df_clean |-> df_clean]

\* A plausible slip: the step is recorded before the flagging is attempted.
ApplyStepFirst(df, ss) ==
    IF apply_raises(df)
    THEN [ss EXCEPT !.step = 1]
    ELSE [ss EXCEPT !.df_flagged = Frame(apply_latest_flag_logic(df.rows)), !.step = 1]

\* "Apply Latest Flag Logic": a KeyError leaves both assignments undone.
ApplyButton(df, ss) ==
    IF apply_raises(df)
    THEN ss
    ELSE [ss EXCEPT !.df_flagged = Frame(apply_latest_flag_logic(df.rows)), !.step = 1]

\* A plausible slip: the step is not advanced.
CleanKeepsStep(ss) ==
    [ss EXCEPT !.df_clean = Frame(clean_rows(ss.df_flagged.rows))]

\* "Show Clean Dataset"
CleanButton(ss) ==
    [ss EXCEPT !.df_clean = Frame(clean_rows(ss.df_flagged.rows)), !.step = 2]

NoMetrics == [shown |-> FALSE, total |-> 0, cleaned |-> 0, duplicates |-> 0,
              rate_ok |-> FALSE, rate |-> 0]

\* f"{x:.1f}" of (total - cleaned) / total * 100, in tenths of a percent.
RateTenths(total, cleaned) ==
    ((total - cleaned) * 2000 + total) \div (2 * total)

\* The three st.metric calls; the third divides by len(df).
Summary(total, cleaned) ==
    [shown      |-> TRUE,
     total      |-> total,
     cleaned    |-> cleaned,
     duplicates |-> total - cleaned,
     rate_ok    |-> total # 0,
     rate       |-> IF total # 0 THEN RateTenths(total, cleaned) ELSE 0]

\* The progress update at the end of main.
Progress(s) ==
    IF s = 0 THEN "Showing raw data..."
    ELSE IF s = 1 THEN "Flagging latest records..."
    ELSE IF s = 2 THEN "Demo complete!"
    ELSE ""

\* One execution of main(), triggered by button c ("none": a plain rerun),
\* on the frame df that load_data returned.
Execute(df, c) ==
    /\ click' = c
    /\ IF ~df.loaded
       THEN \* st.stop() before anything else
            /\ error' = "load_data"
            /\ rendered' = {}
            /\ status_text' = ""
            /\ metrics' = NoMetrics
            /\ UNCHANGED session
       ELSE IF c = "apply" /\ apply_raises(df)
       THEN \* the KeyError ends the execution at the button
            \E ss \in {ApplyButton(df, Session)} :
                /\ error' = "KeyError"
                /\ rendered' = {"apply"}
                /\ status_text' = ""
                /\ metrics' = NoMetrics
                /\ step' = ss.step
                /\ df_flagged' = ss.df_flagged
                /\ df_clean' = ss.df_clean
       ELSE \E s1 \in {IF c = "apply" THEN ApplyButton(df, Session) ELSE Session} :
            \E s2 \in {IF s1.df_flagged.stored /\ c = "clean" THEN CleanButton(s1) ELSE s1} :
            \E m \in {IF s2.df_flagged.stored /\ s2.df_clean.stored
                       THEN Summary(Len(df.rows), Len(s2.df_clean.rows))
                       ELSE NoMetrics} :
                \* a ZeroDivisionError in the third metric skips the progress update
                /\ error' = IF m.shown /\ ~m.rate_ok THEN "ZeroDivisionError" ELSE "ok"
                /\ rendered' = IF s2.df_flagged.stored THEN {"apply", "clean"} ELSE {"apply"}
                /\ status_text' = IF m.shown /\ ~m.rate_ok THEN "" ELSE Progress(s2.step)
                /\ metrics' = m
                /\ step' = s2.step
                /\ df_flagged' = s2.df_flagged
                /\ df_clean' = s2.df_clean

\* main() on the file f.
Main(f, c) ==
    /\ csv' = f
    /\ \E df \in {load_data(f)} : Execute(df, c)

InitWith(files) ==
    /\ csv \in files
    /\ step = 0
    /\ df_flagged = None
    /\ df_clean = None
    /\ click = "none"
    /\ error = "none"
    /\ rendered = {}
    /\ status_text = ""
    /\ metrics = NoMetrics

(* sample.csv may be rewritten between two executions. *)

Rerun == \E f \in DemoFiles : Main(f, "none")

ClickApply == "apply" \in rendered /\ \E f \in DemoFiles : Main(f, "apply")

ClickClean == "clean" \in rendered /\ \E f \in DemoFiles : Main(f, "clean")

Init == InitWith(DemoFiles)

Next == Rerun \/ ClickApply \/ ClickClean

Spec == Init /\ [][Next]_vars

(* sample.csv stays as it is. *)

StaticRerun == Main(csv, "none")

StaticClickApply == "apply" \in rendered /\ Main(csv, "apply")

StaticClickClean == "clean" \in rendered /\ Main(csv, "clean")

StaticInit == InitWith(StaticFiles)

StaticNext == StaticRerun \/ StaticClickApply \/ StaticClickClean

SpecStatic == StaticInit /\ [][StaticNext]_vars

-----------------------------------------------------------------------------
(* Vocabulary of the properties. *)

\* The dataset the latest execution loaded.
Loaded == load_data(csv)

\* The latest execution got past load_data and the buttons.
Completed == error \in {"ok", "ZeroDivisionError"}

Rows(frame) == 1..Len(frame.rows)

\* The entity-key group of row i in the specification's sense: every row
\* with the same (Hostname, FQDN) pair, a missing cell counting as a value.
KeyGroup(rows, i) == {j \in 1..Len(rows) : SameKey(rows[j], rows[i])}

HasReal(rows, g) == \E j \in g : rows[j].Last_Active # NaT

\* The greatest real timestamp among the rows g (which hold one).
GreatestReal(rows, g) ==
    CHOOSE t \in {rows[j].Last_Active : j \in g} :
        t # NaT /\ \A j \in g : rows[j].Last_Active <= t

\* The permutations of 1..n, for every length of file.
PermsOf(n) == {p \in [1..n -> 1..n] : \A i, j \in 1..n : p[i] = p[j] => i = j}
PermTable == [n \in 0..MaxRows |-> PermsOf(n)]
Perms(n) == PermTable[n]

Shuffle(rows, p) == [i \in 1..Len(rows) |-> rows[p[i]]]

\* The k-th least element of a set of positions.
KthOf(S, k) == CHOOSE i \in S : Cardinality({j \in S : j <= i}) = k

WithoutFlag(r) ==
    [Hostname |-> r.Hostname, FQDN |-> r.FQDN, Last_Active |-> r.Last_Active]

-----------------------------------------------------------------------------
(* The flagging rule (sample.csv fixed: SpecStatic). *)

\* C1: in a flagged dataset every group of rows sharing one (Hostname, FQDN)
\* key holds at least one row flagged 1.
C1_AtLeastOneFlagged ==
    df_flagged.stored =>
        \A i \in Rows(df_flagged) :
            \E j \in KeyGroup(df_flagged.rows, i) : df_flagged.rows[j].latest_flag = 1

\* C2: in a flagged dataset, in a group the code forms whose rows all have
\* the missing timestamp, every row is flagged 1.
C2_AllMissingAllFlagged ==
    df_flagged.stored =>
        \A i \in Rows(df_flagged) :
            (/\ InGroup(df_flagged.rows[i])
             /\ ~HasReal(df_flagged.rows, KeyGroup(df_flagged.rows, i)))
            => df_flagged.rows[i].latest_flag = 1

\* The max-recency rule for row i of a flagged dataset whose key group holds
\* a real timestamp: flagged 1 at the group's greatest real timestamp,
\* flagged 0 below it or when missing.
MaxRuleAt(rows, i) ==
    IF rows[i].Last_Active = GreatestReal(rows, KeyGroup(rows, i))
    THEN rows[i].latest_flag = 1
    ELSE rows[i].latest_flag = 0

\* C3: in a flagged dataset, in every key group that holds a real timestamp,
\* a row is flagged 1 if and only if its timestamp is the group's greatest
\* real one; earlier and missing rows are flagged 0.
C3_FlaggedIffGreatest ==
    df_flagged.stored =>
        \A i \in Rows(df_flagged) :
            HasReal(df_flagged.rows, KeyGroup(df_flagged.rows, i))
            => MaxRuleAt(df_flagged.rows, i)

\* The max-recency rule does hold on the rows the code puts in a group.
MaxRuleOnGroupedRows ==
    df_flagged.stored =>
        \A i \in Rows(df_flagged) :
            (/\ InGroup(df_flagged.rows[i])
             /\ HasReal(df_flagged.rows, KeyGroup(df_flagged.rows, i)))
            => MaxRuleAt(df_flagged.rows, i)

\* The rows of an all-missing group the code forms are all flagged 0.
AllMissingAllZero ==
    df_flagged.stored =>
        \A i \in Rows(df_flagged) :
            (/\ InGroup(df_flagged.rows[i])
             /\ ~HasReal(df_flagged.rows, KeyGroup(df_flagged.rows, i)))
            => df_flagged.rows[i].latest_flag = 0

\* C4: a row with a missing Hostname or FQDN is grouped with the rows of the
\* same key and gets a definite flag, 1 or 0, by the max-recency rule.
C4_MissingKeyIsGrouped ==
    df_flagged.stored =>
        \A i \in Rows(df_flagged) :
            ~InGroup(df_flagged.rows[i]) =>
                /\ df_flagged.rows[i].latest_flag \in {0, 1}
                /\ HasReal(df_flagged.rows, KeyGroup(df_flagged.rows, i))
                   => MaxRuleAt(df_flagged.rows, i)

\* A row with a missing key cell is left without a flag (NaN).
MissingKeyIsNaN ==
    df_flagged.stored =>
        \A i \in Rows(df_flagged) :
            ~InGroup(df_flagged.rows[i]) <=> df_flagged.rows[i].latest_flag = FlagNaN

\* The positions of the flagged dataset whose flag is 1.
FlaggedOne == {i \in Rows(df_flagged) : df_flagged.rows[i].latest_flag = 1}

\* C5: the clean dataset is exactly the rows of the flagged dataset whose
\* flag is 1, in their order, each row as it is in the flagged dataset.
C5_CleanIsFlaggedOnes ==
    df_clean.stored =>
        /\ Len(df_clean.rows) = Cardinality(FlaggedOne)
        /\ \A k \in Rows(df_clean) : df_clean.rows[k] = df_flagged.rows[KthOf(FlaggedOne, k)]

\* Two different rows kept in order, and a row dropped.
C5_Witness ==
    /\ click = "clean"
    /\ df_clean.stored
    /\ Len(df_clean.rows) = 2
    /\ df_clean.rows[1] # df_clean.rows[2]
    /\ Len(df_flagged.rows) = 3
    /\ df_flagged.rows[1].latest_flag = FlagNaN

FlagsAgree(shuffled, p) ==
    \A i \in 1..Len(shuffled) : shuffled[i].latest_flag = df_flagged.rows[p[i]].latest_flag

\* C8: when "Apply Latest Flag Logic" has flagged the loaded rows, flagging
\* any permutation of them gives every row the flag it has in the flagged
\* dataset.
C8_OrderIndependent ==
    (click = "apply" /\ Completed) =>
        \A rows \in {Loaded.rows} :
            \A p \in Perms(Len(rows)) :
                \A shuffled \in {apply_latest_flag_logic(Shuffle(rows, p))} :
                    FlagsAgree(shuffled, p)

\* A group of three with two rows tied at the maximum and an earlier row first.
C8_Witness ==
    /\ click = "apply"
    /\ Completed
    /\ Len(df_flagged.rows) = 3
    /\ \A i \in Rows(df_flagged) : SameKey(df_flagged.rows[i], df_flagged.rows[1])
    /\ df_flagged.rows[1].latest_flag = 0
    /\ df_flagged.rows[2].latest_flag = 1
    /\ df_flagged.rows[3].latest_flag = 1

-----------------------------------------------------------------------------
(* The session (sample.csv may be rewritten: Spec). *)

\* C6: a summary over a loaded dataset of zero rows does not fail and shows
\* total 0, cleaned 0 and a rate of 0% (violated under SpecStatic and Spec).
C6_EmptySummary ==
    (Loaded.loaded /\ Len(Loaded.rows) = 0 /\ metrics.shown) =>
        /\ error = "ok"
        /\ metrics.total = 0
        /\ metrics.cleaned = 0
        /\ metrics.rate_ok
        /\ metrics.rate = 0

\* C7: the stored clean dataset is the flagged-latest rows of the dataset
\* the latest execution loaded.
C7_CleanIsDerived ==
    (df_clean.stored /\ Loaded.loaded /\ ~apply_raises(Loaded)) =>
        df_clean.rows = clean_rows(apply_latest_flag_logic(Loaded.rows))

\* A flagged dataset is complete: the loaded rows, each with a flag.
CompleteFlagged(frame, rows) ==
    /\ frame.stored
    /\ Len(frame.rows) = Len(rows)
    /\ \A i \in 1..Len(rows) :
        /\ WithoutFlag(frame.rows[i]) = rows[i]
        /\ frame.rows[i].latest_flag \in {0, 1, FlagNaN}

\* C9: an execution that is to flag a file whose header lacks Hostname, FQDN
\* or Last_Active (UTC) ends in an error and leaves step, df_flagged and
\* df_clean as they were; an "Apply" execution that ends without that error
\* stores a complete flagged dataset.
C9_MissingColumnAborts ==
    [][/\ (/\ ~(AllCols \subseteq csv'.cols)
           /\ (click' = "apply" \/ ~load_data(csv').loaded))
          => (error' \in {"load_data", "KeyError"} /\ UNCHANGED session)
       /\ (click' = "apply" /\ error' \in {"ok", "ZeroDivisionError"})
          => CompleteFlagged(df_flagged', load_data(csv').rows)]_vars

\* A failed "Apply" after the session had stored both datasets.
C9_Witness ==
    /\ click = "apply"
    /\ error = "KeyError"
    /\ FqdnCol \notin csv.cols
    /\ df_flagged.stored
    /\ df_clean.stored
    /\ step = 2

====
